---- MODULE Spec2Model ----
(***************************************************************************)
(* A model of the register-based bytecode VM of src/vm.rs: the public      *)
(* arithmetic and comparison functions on U256, and execute, which decodes *)
(* the three literal blocks of the header into three 256-slot register     *)
(* banks and then walks the instruction bytes.                             *)
(*                                                                         *)
(* A U256 is modelled by its base-256 digits, most significant first, with *)
(* the leading zero digits dropped (zero is the empty sequence): TLC's     *)
(* integers are 32 bits wide, the program's are 256.  Every operation      *)
(* works on 32 digits, so overflow happens where it happens in the code.   *)
(***************************************************************************)
EXTENDS Integers, Sequences, FiniteSets, TLC

\* ------------------------------------------------------------------ widths

\* U256::from_be_bytes takes [u8; 32]
WordBytes == 32

\* Address::from takes [u8; 20]
AddrBytes == 20

\* the register banks: [U256::ZERO; 256], [false; 256], [Address::ZERO; 256]
BankSize == 256

\* one digit of a U256: a u8
Radix == 256

Byte == 0 .. (Radix - 1)

Slots == 0 .. (BankSize - 1)

\* ------------------------------------------------------------------- U256

\* the digits without their leading zeros
Norm(s) ==
    IF \A i \in 1 .. Len(s) : s[i] = 0 THEN <<>>
    ELSE LET k == CHOOSE i \in 1 .. Len(s) :
                      s[i] # 0 /\ \A j \in 1 .. (i - 1) : s[j] = 0
         IN  SubSeq(s, k, Len(s))

\* digit i of a, counted from the least significant one (digit 0)
Dig(a, i) == IF i < Len(a) THEN a[Len(a) - i] ELSE 0

Max2(x, y) == IF x >= y THEN x ELSE y

Min2(x, y) == IF x <= y THEN x ELSE y

RECURSIVE FoldRange(_, _, _, _)
\* Op(... Op(Op(acc, lo), lo + 1) ..., hi): a loop over lo .. hi.  The range
\* is split in halves, and the left half is evaluated (by the test on it)
\* before the right half starts, so that TLC's evaluation nests only
\* logarithmically deep.
FoldRange(Op(_, _), acc, lo, hi) ==
    IF lo > hi THEN acc
    ELSE IF lo = hi THEN Op(acc, lo)
    ELSE LET mid == (lo + hi) \div 2
             left == FoldRange(Op, acc, lo, mid)
         IN  IF left = left THEN FoldRange(Op, left, mid + 1, hi) ELSE left

\* U256::ZERO
U256Zero == <<>>

\* U256::MAX, 2^256 - 1
U256Max == [i \in 1 .. WordBytes |-> Radix - 1]

RECURSIVE FromNatDigits(_)
FromNatDigits(n) == IF n = 0 THEN <<>>
                    ELSE Append(FromNatDigits(n \div Radix), n % Radix)

\* U256::from(n) of a small integer n
U256From(n) == FromNatDigits(n)

\* a faulty variant of U256FromBeBytes: the bytes are read little-endian
U256FromLeBytes(bytes) ==
    Norm([i \in 1 .. Len(bytes) |-> bytes[Len(bytes) + 1 - i]])

\* U256::from_be_bytes
U256FromBeBytes(bytes) == Norm(bytes)

\* a == b on U256
U256Eq(a, b) == a = b

\* a < b on U256: fewer digits, or the smaller digit at the first difference
U256Lt(a, b) ==
    IF Len(a) # Len(b) THEN Len(a) < Len(b)
    ELSE \E i \in 1 .. Len(a) :
             a[i] < b[i] /\ \A j \in 1 .. (i - 1) : a[j] = b[j]

\* a >= b on U256
U256Ge(a, b) == ~U256Lt(a, b)

\* a > b on U256
U256Gt(a, b) == U256Lt(b, a)

\* the digits 0 .. n-1 of a + b + carry0, as <<carry out, digits>>
AddDigits(a, b, n, carry0) ==
    FoldRange(LAMBDA st, i :
                  LET t == Dig(a, i) + Dig(b, i) + st[1]
                  IN  <<t \div Radix, <<t % Radix>> \o st[2]>>,
              <<carry0, <<>>>>, 0, n - 1)

\* a + b on U256: wrapping, the carry out of digit 31 is dropped
U256WrappingAdd(a, b) ==
    Norm(AddDigits(a, b, Min2(WordBytes, Max2(Len(a), Len(b)) + 1), 0)[2])

\* the digits 0 .. n-1 of a - b, as <<borrow out, digits>>
SubDigits(a, b, n) ==
    FoldRange(LAMBDA st, i :
                  LET t == Dig(a, i) - Dig(b, i) - st[1]
                  IN  IF t < 0 THEN <<1, <<t + Radix>> \o st[2]>>
                      ELSE <<0, <<t>> \o st[2]>>,
              <<0, <<>>>>, 0, n - 1)

\* a - b on U256: wrapping, the borrow out of digit 31 is dropped
U256WrappingSub(a, b) ==
    Norm(SubDigits(a, b, IF U256Lt(a, b) THEN WordBytes ELSE Len(a))[2])

\* the sum of Dig(a, i) * Dig(b, k - i): column k of the product
ColSum(a, b, k) ==
    FoldRange(LAMBDA acc, i : acc + Dig(a, i) * Dig(b, k - i),
              0, Max2(0, k - Len(b) + 1), Min2(k, Len(a) - 1))

\* the digits 0 .. n-1 of a * b, as <<carry out, digits>>
MulDigits(a, b, n) ==
    FoldRange(LAMBDA st, k :
                  LET t == ColSum(a, b, k) + st[1]
                  IN  <<t \div Radix, <<t % Radix>> \o st[2]>>,
              <<0, <<>>>>, 0, n - 1)

\* a * b on U256: wrapping, the digits above digit 31 are dropped
U256WrappingMul(a, b) ==
    Norm(MulDigits(a, b, Min2(WordBytes, Len(a) + Len(b)))[2])

\* bit s of the digit d (bit 7 is the top one)
BitOf(d, s) == (d \div (2 ^ s)) % 2

\* 2 * r + bit, exact: r is below the divisor, so up to 33 digits come out
ShiftIn(r, bit) ==
    Norm([i \in 1 .. (Len(r) + 1) |->
            LET k == Len(r) + 1 - i
            IN  (2 * Dig(r, k)
                 + (IF k = 0 THEN bit ELSE Dig(r, k - 1) \div (Radix \div 2)))
                % Radix])

\* one step of binary long division by b: the next bit of the dividend
\* shifted into the quotient and remainder qr
DivStep(b, qr, bit) ==
    LET r2 == ShiftIn(qr[2], bit)
    IN  IF U256Ge(r2, b)
        THEN <<ShiftIn(qr[1], 1), Norm(SubDigits(r2, b, Len(r2))[2])>>
        ELSE <<ShiftIn(qr[1], 0), r2>>

\* the value of a U256 of at most two digits
SmallValue(b) == Dig(b, 1) * Radix + Dig(b, 0)

\* a / d and a % d for a divisor d of at most two digits: long division
\* over the digits of a, most significant first
ShortDivRem(a, d) ==
    LET st == FoldRange(LAMBDA qr, i :
                            LET t == qr[2] * Radix + a[i]
                            IN  <<Append(qr[1], t \div d), t % d>>,
                        <<<<>>, 0>>, 1, Len(a))
    IN  <<Norm(st[1]), FromNatDigits(st[2])>>

\* a / b and a % b on U256, for b # 0: long division over the bits of a,
\* most significant first.  The first Len(b) - 1 digits of a are below b:
\* they are the remainder the division starts with.
U256DivRem(a, b) ==
    IF U256Lt(a, b) THEN <<U256Zero, a>>
    ELSE IF Len(b) <= 2 THEN ShortDivRem(a, SmallValue(b))
    ELSE LET k == Len(b) - 1
         IN  FoldRange(LAMBDA qr, n :
                           DivStep(b, qr, BitOf(a[(n \div 8) + 1], 7 - (n % 8))),
                       <<U256Zero, Norm(SubSeq(a, 1, k))>>,
                       8 * k, 8 * Len(a) - 1)

\* a / b on U256 (b # 0)
U256Div(a, b) == U256DivRem(a, b)[1]

\* a % b on U256 (b # 0)
U256Rem(a, b) == U256DivRem(a, b)[2]

\* ------------------------------------------------- the public functions

\* a Result<U256, Vec<u8>>, or the abort of the call by a panic
Ok(v) == [kind |-> "ok", value |-> v, msg |-> ""]

Err(m) == [kind |-> "err", value |-> U256Zero, msg |-> m]

\* an index out of range aborts the call: Rust checks every input[i]
Panic == [kind |-> "panic", value |-> U256Zero, msg |-> "index out of bounds"]

\* no result yet: the call is running
Running == [kind |-> "none", value |-> U256Zero, msg |-> ""]

\* a faulty variant of add: the sum saturates at U256::MAX
AddSaturating(a, b) ==
    IF U256Lt(U256WrappingAdd(a, b), a) THEN U256Max
    ELSE U256WrappingAdd(a, b)

\* pub fn add: a + b
add(a, b) == U256WrappingAdd(a, b)

\* pub fn mul: a * b
mul(a, b) == U256WrappingMul(a, b)

\* a faulty variant of sub: the operands are taken in the other order
SubSwapped(a, b) ==
    IF U256Ge(b, a) THEN Ok(U256WrappingSub(b, a))
    ELSE Err("Subtraction underflow")

\* a faulty variant of sub: equal operands underflow
SubStrict(a, b) ==
    IF U256Gt(a, b) THEN Ok(U256WrappingSub(a, b))
    ELSE Err("Subtraction underflow")

\* pub fn sub: Ok(a - b) if a >= b, else Err
sub(a, b) ==
    IF U256Ge(a, b) THEN Ok(U256WrappingSub(a, b))
    ELSE Err("Subtraction underflow")

\* a faulty variant of div: a zero divisor gives a zero quotient
DivByZeroIsZero(a, b) ==
    IF b = U256Zero THEN Ok(U256Zero)
    ELSE Ok(U256Div(a, b))

\* pub fn div: Err if b is zero, else Ok(a / b)
div(a, b) ==
    IF b = U256Zero THEN Err("Division by zero")
    ELSE Ok(U256Div(a, b))

\* pub fn special
special == U256From(69)

\* a faulty variant of is_even: the parity is taken the wrong way round
IsOdd(a) == U256Rem(a, U256From(2)) # U256Zero

\* pub fn is_even: a % 2 == 0
is_even(a) == U256Rem(a, U256From(2)) = U256Zero

\* pub fn equal
equal(a, b) == U256Eq(a, b)

\* pub fn greater_than
greater_than(a, b) == U256Gt(a, b)

\* pub fn less_than
less_than(a, b) == U256Lt(a, b)

\* &data[offset..offset + n]
Slice(data, offset, n) == SubSeq(data, offset + 1, offset + n)

\* fn bytes_to_u256
bytes_to_u256(data, offset) ==
    IF offset + WordBytes > Len(data) THEN Err("Out of bounds")
    ELSE Ok(U256FromBeBytes(Slice(data, offset, WordBytes)))

\* An Address is modelled, like a U256, by the digits of the 160-bit number
\* its 20 bytes hold, most significant first, without the leading zeros.

\* Address::ZERO
AddressZero == <<>>

\* Address::from([u8; 20])
AddressFrom(bytes) == Norm(bytes)

\* fn bytes_to_address; the value field of the result carries the address
bytes_to_address(data, offset) ==
    IF offset + AddrBytes > Len(data) THEN Err("Out of bounds")
    ELSE Ok(AddressFrom(Slice(data, offset, AddrBytes)))

\* ----------------------------------------------------------- the inputs

\* the most uint256 literals of a header
MaxUints == 2

\* the most bool literals of a header
MaxBools == 2

\* the most address literals of a header
MaxAddrs == 1

\* the most instructions from CoreInstrs in front of a program's last one
MaxInstrs == 2

\* the most bytes cut off the end of a well-formed buffer
MaxCut == 3

\* the sequences over S of length at most n
SeqsUpTo(S, n) == UNION {[1 .. k -> S] : k \in 0 .. n}

RECURSIVE Concat(_)
\* the sequences of ss, one after the other
Concat(ss) == IF ss = <<>> THEN <<>> ELSE Head(ss) \o Concat(Tail(ss))

\* the 32 bytes of a U256, big-endian
BeBytes(v) == [i \in 1 .. WordBytes |-> Dig(v, WordBytes - i)]

\* the 20 bytes of an address
AddrBytesOf(a) == [i \in 1 .. AddrBytes |-> Dig(a, AddrBytes - i)]

\* the address whose 20 bytes are all b
AddrOf(b) == AddressFrom([i \in 1 .. AddrBytes |-> b])

\* [n_u][u256]*n_u [n_b][bool]*n_b [n_a][address]*n_a
Header(us, bs, as) ==
    <<Len(us)>> \o Concat([i \in 1 .. Len(us) |-> BeBytes(us[i])])
    \o <<Len(bs)>> \o bs
    \o <<Len(as)>> \o Concat([i \in 1 .. Len(as) |-> AddrBytesOf(as[i])])

\* a buffer without its last c bytes
CutOff(buf, c) == SubSeq(buf, 1, Len(buf) - Min2(c, Len(buf)))

\* literal i of a header whose shape is explored: small values and values
\* near U256::MAX, no two of them equal
ShapeLit(i) ==
    IF i % 2 = 1 THEN U256From(4 + i)
    ELSE U256WrappingSub(U256Max, U256From(i))

\* bool byte i of such a header: 2 (truthy, not 1), 0, 1, 2, ...
ShapeBool(i) == (i + 1) % 3

\* address i of such a header
ShapeAddr(i) == AddrOf(16 + i)

\* the instruction streams that follow these headers
ShapeCodes == {<<>>, <<4, 0>>, <<8, 1>>, <<99>>}

\* well-formed buffers of every header shape, and what is left of them
\* with up to MaxCut bytes missing
ShapeInputs ==
    {CutOff(Header([i \in 1 .. nu |-> ShapeLit(i)],
                   [i \in 1 .. nb |-> ShapeBool(i)],
                   [i \in 1 .. na |-> ShapeAddr(i)]) \o code, c) :
        nu \in 0 .. MaxUints,
        nb \in 0 .. MaxBools,
        na \in 0 .. MaxAddrs,
        code \in ShapeCodes,
        c \in 0 .. MaxCut}

\* the uint256 literal blocks of the programs explored
LiteralLists ==
    {<<U256From(5)>>, <<U256From(7)>>,
     <<U256From(2), U256From(5)>>, <<U256From(3), U256From(2)>>,
     <<U256Max, U256From(2)>>}

\* the instructions in front of the last one: add(0,0,1), sub(0,1,0),
\* sub(1,0,0), div(0,1,1)
CoreInstrs ==
    {<<0, 0, 0, 1>>, <<32, 0, 1, 0>>, <<32, 1, 0, 0>>, <<33, 0, 1, 1>>}

\* the last instruction of a program: every opcode of the table with its
\* operands, and bytes that are no opcode
LastInstrs ==
    {<<0, 0, 1, 0>>, <<1, 0, 1, 255>>, <<2, 0, 0>>, <<3, 1>>, <<4, 0>>,
     <<4, 1>>, <<4, 255>>, <<5, 0, 1, 0>>, <<6, 0, 1, 1>>, <<7, 0, 1, 255>>,
     <<8, 0>>, <<9, 0>>, <<10, 0>>, <<30, 255>>, <<31, 1>>, <<32, 1, 0, 0>>,
     <<33, 1, 0, 2>>, <<11>>, <<29, 4, 0>>, <<255, 0>>}

\* whole programs: a literal block, up to MaxInstrs core instructions and a
\* last instruction
WholeInputs ==
    {Header(us, <<>>, <<>>) \o Concat(core) \o last :
        us \in LiteralLists,
        core \in SeqsUpTo(CoreInstrs, MaxInstrs),
        last \in LastInstrs}

\* programs whose last instruction lacks up to MaxCut bytes
TruncatedInputs ==
    {CutOff(Header(<<U256From(5)>>, <<>>, <<>>) \o Concat(core) \o last, c) :
        core \in SeqsUpTo(CoreInstrs, 1),
        last \in LastInstrs,
        c \in 1 .. MaxCut}

\* programs with bytes after a return instruction, a program that tests
\* the parity of a literal, and a header whose bool bytes are 2 and 0
ExtraInputs ==
    {Header(<<U256From(5)>>, <<>>, <<>>) \o code :
        code \in {<<4, 0, 99>>, <<4, 0, 0, 0>>, <<8, 0, 32, 0>>,
                  <<0, 0, 0, 1, 4, 1, 0, 0, 0, 0, 4, 0>>}}
    \cup {Header(<<U256From(7)>>, <<>>, <<>>) \o <<2, 0, 0, 8, 0>>,
          Header(<<U256From(2)>>, <<>>, <<>>) \o <<2, 0, 0, 8, 0>>,
          Header(<<>>, <<2, 0>>, <<>>) \o <<8, 0>>,
          Header(<<>>, <<2, 0>>, <<>>) \o <<8, 1, 8, 0>>}

\* the program buffers execute is called on
Inputs == ShapeInputs \cup WholeInputs \cup TruncatedInputs \cup ExtraInputs

\* the largest of the small values of a and b
MaxSmall == 3

\* the operands of the public arithmetic functions: the small values, the
\* values as far below U256::MAX, and values at the digit and word borders
ArithValues ==
    {U256From(n) : n \in 0 .. MaxSmall}
    \cup {U256WrappingSub(U256Max, U256From(n)) : n \in 0 .. MaxSmall}
    \cup {U256From(5), U256From(7), U256From(255), U256From(256),
          U256From(65537),
          [i \in 1 .. 17 |-> IF i = 1 THEN 1 ELSE 0],
          [i \in 1 .. 16 |-> 255],
          [i \in 1 .. WordBytes |-> IF i = 1 THEN 128 ELSE 0],
          [i \in 1 .. WordBytes |-> IF i = 1 THEN 127 ELSE 255]}

\* the item prices execute is called with
Prices == {U256From(1000000)}

\* msg::sender(): the callers
Senders == {AddrOf(1)}

\* the calls of execute that are also made one after another on one VM,
\* as <<input, item_price, sender>>: a program that fails after its header
\* wrote two integer slots, one that returns a slot no instruction of it
\* writes, one that returns the item price (at two prices), and two that
\* differ in their address literal and are called by different senders
RepeatCalls ==
    {<<Header(<<U256From(2), U256From(5)>>, <<1>>, <<>>) \o <<32, 0, 1, 0>>,
       U256From(1000000), AddrOf(1)>>,
     <<<<0, 0, 0, 4, 1>>, U256From(1000000), AddrOf(1)>>,
     <<<<0, 0, 0, 31, 0, 4, 0>>, U256From(1000000), AddrOf(1)>>,
     <<<<0, 0, 0, 31, 0, 4, 0>>, U256From(7), AddrOf(1)>>,
     <<Header(<<>>, <<>>, <<AddrOf(17)>>) \o <<30, 1, 10, 2, 4, 1>>,
       U256From(1000000), AddrOf(1)>>,
     <<Header(<<>>, <<>>, <<AddrOf(18)>>) \o <<30, 1, 10, 2, 4, 1>>,
       U256From(1000000), AddrOf(9)>>}

\* the calls of execute: every program at the one price by the one sender,
\* and the calls that are repeated
ExecuteCalls == (Inputs \X Prices \X Senders) \cup RepeatCalls

\* the calls made on one VM, one after another
MaxCalls == 3

\* the two addresses the VM is constructed with
Deployments == {<<AddrOf(2), AddrOf(3)>>}

\* ------------------------------------------------------------ the state

VARIABLES
    arb_price_consumer, \* the storage field arb_price_consumer
    redot_pay_vault,    \* the storage field redot_pay_vault
    calls,          \* the calls that have returned on this VM
    returned,       \* the calls of execute that returned on this VM, in order
    fn,             \* the public function that was called
    args,           \* the a and b of a call of add, mul, sub or div
    input,          \* execute's input: Vec<u8>
    item_price,     \* execute's item_price: U256
    sender,         \* msg::sender() of the call
    pc,             \* where execute stands
    offset,         \* let mut offset
    uint256_count,  \* let uint256_count
    bool_count,     \* let bool_count
    address_count,  \* let address_count
    j,              \* the index of the literal loop that is running
    instr_offset,   \* let mut instr_offset
    executed,       \* the iterations of the dispatch loop so far
    buff_uint256,   \* [U256; 256]
    buff_bool,      \* [bool; 256]
    buff_address,   \* [Address; 256]
    result          \* what the call returned, once pc = "done"

vars == <<arb_price_consumer, redot_pay_vault, calls, returned, fn, args, input, item_price, sender, pc, offset, uint256_count, bool_count,
          address_count, j, instr_offset, executed, buff_uint256, buff_bool,
          buff_address, result>>

\* input.len()
InputLen == Len(input)

\* input[i]: the byte, when the index is in range
At(i) == input[i + 1]

\* whether input[i] is in range; if not the read panics
InRange(i) == i < InputLen

regs == <<buff_uint256, buff_bool, buff_address>>

counts == <<uint256_count, bool_count, address_count>>

call == <<fn, args, input, item_price, sender>>

storage == <<arb_price_consumer, redot_pay_vault>>

session == <<calls, returned>>

\* the contract is deployed and no function of it is called yet
Init ==
    /\ \E d \in Deployments :
           /\ arb_price_consumer = d[1]
           /\ redot_pay_vault = d[2]
    /\ calls = 0
    /\ returned = <<>>
    /\ fn = "none"
    /\ args = <<>>
    /\ input = <<>>
    /\ item_price = U256Zero
    /\ sender = AddressZero
    /\ pc = "idle"
    /\ offset = 0
    /\ uint256_count = 0
    /\ bool_count = 0
    /\ address_count = 0
    /\ j = 0
    /\ instr_offset = 0
    /\ executed = 0
    /\ buff_uint256 = [i \in Slots |-> U256Zero]
    /\ buff_bool = [i \in Slots |-> FALSE]
    /\ buff_address = [i \in Slots |-> AddressZero]
    /\ result = Running

locals == <<offset, uint256_count, bool_count, address_count, j,
            instr_offset, executed, buff_uint256, buff_bool, buff_address>>

\* what the public function name returns on a and b
Returned(name, a, b) ==
    CASE name = "add" -> Ok(add(a, b))
      [] name = "mul" -> Ok(mul(a, b))
      [] name = "sub" -> sub(a, b)
      [] name = "div" -> div(a, b)

\* a call of one of the public functions add, mul, sub, div, made on a
\* VM no call has returned on
CallArith(name) ==
    /\ pc = "idle"
    /\ calls = 0
    /\ \E a \in ArithValues, b \in ArithValues :
           /\ fn' = name
           /\ args' = <<a, b>>
           /\ result' = Returned(name, a, b)
    /\ pc' = "done"
    /\ UNCHANGED <<storage, session, input, item_price, sender, locals>>

CallAdd == CallArith("add")

CallMul == CallArith("mul")

CallSub == CallArith("sub")

CallDiv == CallArith("div")

\* a faulty variant of CallExecute: the banks are not initialized
CallExecuteKeepsBanks ==
    /\ pc = "idle"
    /\ fn' = "execute"
    /\ \E c \in (IF calls = 0 THEN ExecuteCalls ELSE RepeatCalls) :
           /\ input' = c[1]
           /\ item_price' = c[2]
           /\ sender' = c[3]
    /\ pc' = "start"
    /\ offset' = 0
    /\ executed' = 0
    /\ result' = Running
    /\ UNCHANGED <<storage, session, args, counts, j, instr_offset, regs>>

\* a call of execute(input, item_price) by sender: let mut offset = 0 and
\* the three banks are initialized (lines 124-129); the locals that are
\* assigned later hold what the memory held
CallExecute ==
    /\ pc = "idle"
    /\ fn' = "execute"
    /\ \E c \in (IF calls = 0 THEN ExecuteCalls ELSE RepeatCalls) :
           /\ input' = c[1]
           /\ item_price' = c[2]
           /\ sender' = c[3]
    /\ pc' = "start"
    /\ offset' = 0
    /\ executed' = 0
    /\ result' = Running
    /\ buff_uint256' = [i \in Slots |-> U256Zero]
    /\ buff_bool' = [i \in Slots |-> FALSE]
    /\ buff_address' = [i \in Slots |-> AddressZero]
    /\ UNCHANGED <<storage, session, args, counts, j, instr_offset>>

\* pub fn arb_price_consumer: the getter of the first storage field
CallArbPriceConsumer ==
    /\ pc = "idle"
    /\ fn' = "arb_price_consumer"
    /\ result' = Ok(arb_price_consumer)
    /\ pc' = "done"
    /\ UNCHANGED <<storage, session, args, input, item_price, sender, locals>>

\* pub fn redot_pay_vault: the getter of the second storage field
CallRedotPayVault ==
    /\ pc = "idle"
    /\ fn' = "redot_pay_vault"
    /\ result' = Ok(redot_pay_vault)
    /\ pc' = "done"
    /\ UNCHANGED <<storage, session, args, input, item_price, sender, locals>>

\* a call of execute has returned, and the VM is ready for the next call:
\* the storage is what the call left, the memory of the locals is not
\* cleared
Finish ==
    /\ pc = "done"
    /\ fn = "execute"
    /\ <<input, item_price, sender>> \in RepeatCalls
    /\ calls < MaxCalls - 1
    /\ calls' = calls + 1
    /\ returned' = Append(returned, <<input, item_price, sender, result>>)
    /\ fn' = "none"
    /\ pc' = "idle"
    /\ UNCHANGED <<storage, args, input, item_price, sender, result, locals>>

\* return r
Return(r) ==
    /\ pc' = "done"
    /\ result' = r

\* --------------------------------------------------- the header decoding

\* if input.len() < 3
TooShort == InputLen < 3

\* lines 120-137: the length check, the banks, the uint256 count
LoadUintCount ==
    /\ pc = "start"
    /\ IF TooShort
       THEN /\ Return(Err("Input too short for all counts"))
            /\ UNCHANGED <<offset, uint256_count, j>>
       ELSE IF ~InRange(offset)
       THEN /\ Return(Panic)
            /\ UNCHANGED <<offset, uint256_count, j>>
       ELSE /\ uint256_count' = At(offset)
            /\ offset' = offset + 1
            /\ j' = 0
            /\ IF InputLen < offset' + uint256_count' * WordBytes
               THEN Return(Err("Not enough bytes for uint256s"))
               ELSE /\ pc' = "uints"
                    /\ UNCHANGED result
    /\ UNCHANGED <<storage, session, call, bool_count, address_count, instr_offset, executed, regs>>

\* a faulty variant of LoadUint256: the literal is also stored in the slot
\* as far from the end of the bank
LoadUint256Spills ==
    /\ pc = "uints"
    /\ j < uint256_count
    /\ LET r == bytes_to_u256(input, offset)
       IN  IF r.kind = "err"
           THEN /\ Return(r)
                /\ UNCHANGED <<buff_uint256, offset, j>>
           ELSE /\ buff_uint256' = [buff_uint256 EXCEPT ![j] = r.value,
                                        ![BankSize - 1 - j] = r.value]
                /\ offset' = offset + WordBytes
                /\ j' = j + 1
                /\ UNCHANGED <<pc, result>>
    /\ UNCHANGED <<storage, session, call, counts, instr_offset, executed, buff_bool, buff_address>>

\* lines 139-142: one iteration of for j in 0..uint256_count
LoadUint256 ==
    /\ pc = "uints"
    /\ j < uint256_count
    /\ LET r == bytes_to_u256(input, offset)
       IN  IF r.kind = "err"
           THEN /\ Return(r)
                /\ UNCHANGED <<buff_uint256, offset, j>>
           ELSE /\ buff_uint256' = [buff_uint256 EXCEPT ![j] = r.value]
                /\ offset' = offset + WordBytes
                /\ j' = j + 1
                /\ UNCHANGED <<pc, result>>
    /\ UNCHANGED <<storage, session, call, counts, instr_offset, executed, buff_bool, buff_address>>

\* lines 145-150: the bool count
LoadBoolCount ==
    /\ pc = "uints"
    /\ j = uint256_count
    /\ IF ~InRange(offset)
       THEN /\ Return(Panic)
            /\ UNCHANGED <<offset, bool_count, j>>
       ELSE /\ bool_count' = At(offset)
            /\ offset' = offset + 1
            /\ j' = 0
            /\ IF InputLen < offset' + bool_count'
               THEN Return(Err("Not enough bytes for bools"))
               ELSE /\ pc' = "bools"
                    /\ UNCHANGED result
    /\ UNCHANGED <<storage, session, call, uint256_count, address_count, instr_offset, executed, regs>>

\* a faulty variant of LoadBool: only the byte 1 is true
LoadBoolOnlyOne ==
    /\ pc = "bools"
    /\ j < bool_count
    /\ IF ~InRange(offset)
       THEN /\ Return(Panic)
            /\ UNCHANGED <<buff_bool, offset, j>>
       ELSE /\ buff_bool' = [buff_bool EXCEPT ![j] = (At(offset) = 1)]
            /\ offset' = offset + 1
            /\ j' = j + 1
            /\ UNCHANGED <<pc, result>>
    /\ UNCHANGED <<storage, session, call, counts, instr_offset, executed,
                   buff_uint256, buff_address>>

\* lines 152-155: one iteration of for j in 0..bool_count
LoadBool ==
    /\ pc = "bools"
    /\ j < bool_count
    /\ IF ~InRange(offset)
       THEN /\ Return(Panic)
            /\ UNCHANGED <<buff_bool, offset, j>>
       ELSE /\ buff_bool' = [buff_bool EXCEPT ![j] = (At(offset) # 0)]
            /\ offset' = offset + 1
            /\ j' = j + 1
            /\ UNCHANGED <<pc, result>>
    /\ UNCHANGED <<storage, session, call, counts, instr_offset, executed, buff_uint256, buff_address>>

\* lines 158-163: the address count
LoadAddressCount ==
    /\ pc = "bools"
    /\ j = bool_count
    /\ IF ~InRange(offset)
       THEN /\ Return(Panic)
            /\ UNCHANGED <<offset, address_count, j>>
       ELSE /\ address_count' = At(offset)
            /\ offset' = offset + 1
            /\ j' = 0
            /\ IF InputLen < offset' + address_count' * AddrBytes
               THEN Return(Err("Not enough bytes for addresses"))
               ELSE /\ pc' = "addrs"
                    /\ UNCHANGED result
    /\ UNCHANGED <<storage, session, call, uint256_count, bool_count, instr_offset, executed, regs>>

\* lines 165-168: one iteration of for j in 0..address_count
LoadAddress ==
    /\ pc = "addrs"
    /\ j < address_count
    /\ LET r == bytes_to_address(input, offset)
       IN  IF r.kind = "err"
           THEN /\ Return(r)
                /\ UNCHANGED <<buff_address, offset, j>>
           ELSE /\ buff_address' = [buff_address EXCEPT ![j] = r.value]
                /\ offset' = offset + AddrBytes
                /\ j' = j + 1
                /\ UNCHANGED <<pc, result>>
    /\ UNCHANGED <<storage, session, call, counts, instr_offset, executed, buff_uint256, buff_bool>>

\* line 171: let mut instr_offset = offset
BeginInstructions ==
    /\ pc = "addrs"
    /\ j = address_count
    /\ instr_offset' = offset
    /\ pc' = "run"
    /\ UNCHANGED <<storage, session, call, offset, counts, j, executed, regs, result>>

\* ----------------------------------------------------- the dispatch loop

\* the opcodes the match has an arm for
Opcodes == (0 .. 10) \cup {30, 31, 32, 33}

\* lines 173-177: while instr_offset < input.len(), the opcode byte is read
\* and the cursor moves past it
Fetch(op) ==
    /\ pc = "run"
    /\ instr_offset < InputLen
    /\ At(instr_offset) = op
    /\ executed' = executed + 1

\* a faulty variant of NeedsMore: the last operand byte is not counted
NeedsMoreOffByOne(k) == instr_offset + k > InputLen

\* if instr_offset + k > input.len(), instr_offset being past the opcode
NeedsMore(k) == (instr_offset + 1) + k > InputLen

\* input[instr_offset + i] as usize, instr_offset being past the opcode
Operand(i) == At(instr_offset + 1 + i)

\* the handler's reads of its k operands are in range
OperandsInRange(k) == \A i \in 0 .. (k - 1) : InRange(instr_offset + 1 + i)

\* a faulty variant of Fail: the error is recorded and the loop goes on
FailContinue(r) ==
    /\ result' = r
    /\ instr_offset' = instr_offset + 1
    /\ UNCHANGED <<storage, session, call, offset, counts, j, regs, pc>>

\* return Err(..) or the abort of a handler that has read the opcode
Fail(r) ==
    /\ Return(r)
    /\ instr_offset' = instr_offset + 1
    /\ UNCHANGED <<storage, session, call, offset, counts, j, regs>>

\* buff_uint256[arg], arg being the operand i of the instruction
IntReg(i) == buff_uint256[Operand(i)]

\* a faulty variant of IntArm3: the cursor stops on the last operand
IntArm3ShortStep(op, msg, r) ==
    /\ Fetch(op)
    /\ IF NeedsMore(3) THEN Fail(Err(msg))
       ELSE IF ~OperandsInRange(3) THEN Fail(Panic)
       ELSE IF r.kind = "err" THEN Fail(r)
       ELSE /\ buff_uint256' = [buff_uint256 EXCEPT ![Operand(2)] = r.value]
            /\ instr_offset' = instr_offset + 3
            /\ UNCHANGED <<storage, session, call, offset, counts, j, buff_bool,
                           buff_address, pc, result>>

\* an arm that writes buff_uint256[ret] from two integer registers:
\* r is the Result of the operation on them, and its error is returned
\* (the ?)
IntArm3(op, msg, r) ==
    /\ Fetch(op)
    /\ IF NeedsMore(3) THEN Fail(Err(msg))
       ELSE IF ~OperandsInRange(3) THEN Fail(Panic)
       ELSE IF r.kind = "err" THEN Fail(r)
       ELSE /\ buff_uint256' = [buff_uint256 EXCEPT ![Operand(2)] = r.value]
            /\ instr_offset' = instr_offset + 4
            /\ UNCHANGED <<storage, session, call, offset, counts, j, buff_bool,
                           buff_address, pc, result>>

\* an arm that writes buff_bool[ret] with p, computed from two integer
\* registers
BoolArm3(op, msg, p) ==
    /\ Fetch(op)
    /\ IF NeedsMore(3) THEN Fail(Err(msg))
       ELSE IF ~OperandsInRange(3) THEN Fail(Panic)
       ELSE /\ buff_bool' = [buff_bool EXCEPT ![Operand(2)] = p]
            /\ instr_offset' = instr_offset + 4
            /\ UNCHANGED <<storage, session, call, offset, counts, j, buff_uint256,
                           buff_address, pc, result>>

\* an arm that writes buff_uint256[ret] with a value that reads no register
IntArm1(op, msg, v) ==
    /\ Fetch(op)
    /\ IF NeedsMore(1) THEN Fail(Err(msg))
       ELSE IF ~OperandsInRange(1) THEN Fail(Panic)
       ELSE /\ buff_uint256' = [buff_uint256 EXCEPT ![Operand(0)] = v]
            /\ instr_offset' = instr_offset + 2
            /\ UNCHANGED <<storage, session, call, offset, counts, j, buff_bool, buff_address,
                           pc, result>>

\* a faulty variant of AddrArm1: the integer slot ret is written as well
AddrArm1AlsoInt(op, msg, v) ==
    /\ Fetch(op)
    /\ IF NeedsMore(1) THEN Fail(Err(msg))
       ELSE IF ~OperandsInRange(1) THEN Fail(Panic)
       ELSE /\ buff_address' = [buff_address EXCEPT ![Operand(0)] = v]
            /\ buff_uint256' = [buff_uint256 EXCEPT ![Operand(0)] = v]
            /\ instr_offset' = instr_offset + 2
            /\ UNCHANGED <<storage, session, call, offset, counts, j, buff_bool,
                           pc, result>>

\* an arm that writes buff_address[ret]
AddrArm1(op, msg, v) ==
    /\ Fetch(op)
    /\ IF NeedsMore(1) THEN Fail(Err(msg))
       ELSE IF ~OperandsInRange(1) THEN Fail(Panic)
       ELSE /\ buff_address' = [buff_address EXCEPT ![Operand(0)] = v]
            /\ instr_offset' = instr_offset + 2
            /\ UNCHANGED <<storage, session, call, offset, counts, j, buff_uint256, buff_bool,
                           pc, result>>

\* a faulty variant of ReturnArm: the value is recorded and the loop goes
\* on behind the instruction
ReturnArmContinues(op, msg, v) ==
    /\ Fetch(op)
    /\ IF NeedsMore(1) THEN Fail(Err(msg))
       ELSE IF ~OperandsInRange(1) THEN Fail(Panic)
       ELSE /\ result' = Ok(v)
            /\ instr_offset' = instr_offset + 2
            /\ UNCHANGED <<storage, session, call, offset, counts, j, regs, pc>>

\* an arm that returns Ok(v), v read from the register ret_idx
ReturnArm(op, msg, v) ==
    /\ Fetch(op)
    /\ IF NeedsMore(1) THEN Fail(Err(msg))
       ELSE IF ~OperandsInRange(1) THEN Fail(Panic)
       ELSE Fail(Ok(v))

\* Opcode 0: add
OpAdd ==
    IntArm3(0, "Not enough bytes for add instruction",
            Ok(add(IntReg(0), IntReg(1))))

\* Opcode 1: mul
OpMul ==
    IntArm3(1, "Not enough bytes for mul instruction",
            Ok(mul(IntReg(0), IntReg(1))))

\* Opcode 2: isEven
OpIsEven ==
    /\ Fetch(2)
    /\ IF NeedsMore(2) THEN Fail(Err("Not enough bytes for isEven instruction"))
       ELSE IF ~OperandsInRange(2) THEN Fail(Panic)
       ELSE /\ buff_bool' = [buff_bool EXCEPT ![Operand(1)] =
                                 is_even(IntReg(0))]
            /\ instr_offset' = instr_offset + 3
            /\ UNCHANGED <<storage, session, call, offset, counts, j, buff_uint256,
                           buff_address, pc, result>>

\* Opcode 3: special
OpSpecial ==
    IntArm1(3, "Not enough bytes for special instruction", special)

\* Opcode 4: return uint256
OpReturnUint ==
    ReturnArm(4, "Not enough bytes for return instruction",
              IntReg(0))

\* Opcode 5: equal
OpEqual ==
    BoolArm3(5, "Not enough bytes for equal instruction",
             equal(IntReg(0), IntReg(1)))

\* Opcode 6: greaterThan
OpGreaterThan ==
    BoolArm3(6, "Not enough bytes for greaterThan instruction",
             greater_than(IntReg(0), IntReg(1)))

\* Opcode 7: lessThan
OpLessThan ==
    BoolArm3(7, "Not enough bytes for lessThan instruction",
             less_than(IntReg(0), IntReg(1)))

\* Opcode 8: return bool
OpReturnBool ==
    ReturnArm(8, "Not enough bytes for return bool instruction",
              IF buff_bool[Operand(0)] THEN U256From(1) ELSE U256Zero)

\* a faulty variant of OpSender: the sender is written to the integer bank
OpSenderIntoInt ==
    IntArm1(30, "Not enough bytes for msg.sender instruction", sender)

\* Opcode 30: msg.sender
OpSender ==
    AddrArm1(30, "Not enough bytes for msg.sender instruction", sender)

\* Opcode 31: itemPrice
OpItemPrice ==
    IntArm1(31, "Not enough bytes for itemPrice instruction", item_price)

\* Opcode 32: sub
OpSub ==
    IntArm3(32, "Not enough bytes for sub instruction",
            sub(IntReg(0), IntReg(1)))

\* Opcode 33: div
OpDiv ==
    IntArm3(33, "Not enough bytes for div instruction",
            div(IntReg(0), IntReg(1)))

\* Opcode 9: getLatestPrice (the mock value)
OpGetLatestPrice ==
    IntArm1(9, "Not enough bytes for getLatestPrice instruction",
            U256From(1000))

\* Opcode 10: getPriceFeedAddress (the mock value)
OpGetPriceFeedAddress ==
    AddrArm1(10, "Not enough bytes for getPriceFeedAddress instruction",
             AddressZero)

\* a faulty variant of OpInvalid: an unknown opcode is skipped
OpInvalidSkips ==
    /\ \E op \in Byte \ Opcodes : Fetch(op)
    /\ instr_offset' = instr_offset + 1
    /\ UNCHANGED <<storage, session, call, offset, counts, j, regs, pc, result>>

\* the arm _ : any other opcode
OpInvalid ==
    /\ \E op \in Byte \ Opcodes : Fetch(op)
    /\ Fail(Err("Invalid opcode"))

\* a faulty variant of ReturnDefault: the first integer slot is returned
ReturnDefaultSlotZero ==
    /\ pc = "run"
    /\ instr_offset >= InputLen
    /\ Return(Ok(buff_uint256[0]))
    /\ UNCHANGED <<storage, session, call, offset, counts, j, instr_offset,
                   executed, regs>>

\* line 371: the loop ends at the end of the buffer, Ok(U256::ZERO)
ReturnDefault ==
    /\ pc = "run"
    /\ instr_offset >= InputLen
    /\ Return(Ok(U256Zero))
    /\ UNCHANGED <<storage, session, call, offset, counts, j, instr_offset, executed, regs>>

Next ==
    \/ CallAdd
    \/ CallMul
    \/ CallSub
    \/ CallDiv
    \/ CallExecute
    \/ CallArbPriceConsumer
    \/ CallRedotPayVault
    \/ Finish
    \/ LoadUintCount
    \/ LoadUint256
    \/ LoadBoolCount
    \/ LoadBool
    \/ LoadAddressCount
    \/ LoadAddress
    \/ BeginInstructions
    \/ OpAdd
    \/ OpMul
    \/ OpIsEven
    \/ OpSpecial
    \/ OpReturnUint
    \/ OpEqual
    \/ OpGreaterThan
    \/ OpLessThan
    \/ OpReturnBool
    \/ OpGetLatestPrice
    \/ OpGetPriceFeedAddress
    \/ OpSender
    \/ OpItemPrice
    \/ OpSub
    \/ OpDiv
    \/ OpInvalid
    \/ ReturnDefault

Spec == Init /\ [][Next]_vars

\* ------------------------------------------------------------ the claims

\* execute has returned (or aborted)
ExecuteDone == fn = "execute" /\ pc = "done"

\* C1: during execute every byte index that is read lies inside the buffer:
\* the three count bytes and the literal blocks of the header, the opcode
\* byte and the operand bytes of the dispatch loop.  No call is aborted by
\* an index out of range, and wherever execute stands the index it reads
\* next is below input.len().
C1_ReadsInsideBuffer ==
    /\ result.kind # "panic"
    /\ pc = "start" /\ ~TooShort => InRange(offset)
    /\ pc = "uints" => IF j < uint256_count
                       THEN offset + WordBytes <= InputLen
                       ELSE InRange(offset)
    /\ pc = "bools" => InRange(offset)
    /\ pc = "addrs" /\ j < address_count => offset + AddrBytes <= InputLen

\* the length the header of buf declares, or -1 if buf ends before the
\* count byte that would tell: [n_u] 32*n_u bytes [n_b] n_b bytes [n_a]
\* 20*n_a bytes
DeclaredHeaderLen(buf) ==
    IF Len(buf) < 1 THEN -1
    ELSE LET pb == 1 + WordBytes * buf[1]
         IN  IF Len(buf) < pb + 1 THEN -1
             ELSE LET pa == pb + 1 + buf[pb + 1]
                  IN  IF Len(buf) < pa + 1 THEN -1
                      ELSE pa + 1 + AddrBytes * buf[pa + 1]

\* buf is shorter than the header it declares
HeaderIsShort(buf) ==
    DeclaredHeaderLen(buf) = -1 \/ Len(buf) < DeclaredHeaderLen(buf)

\* the errors of a header that is too short
HeaderErrors ==
    {"Input too short for all counts", "Not enough bytes for uint256s",
     "Not enough bytes for bools", "Not enough bytes for addresses"}

\* C2: a buffer shorter than the header it declares makes execute end with
\* the error of a short header, never with a success value and never with
\* an abort.
C2_ShortHeaderIsAnError ==
    ExecuteDone /\ HeaderIsShort(input) =>
        result.kind = "err" /\ result.msg \in HeaderErrors

\* the header is decoded and no instruction is dispatched yet
HeaderDecoded == fn = "execute" /\ pc = "run" /\ executed = 0

\* C3: when the header decoding succeeds, the instruction cursor starts at
\* 3 + 32*n_u + n_b + 20*n_a, the three counts being the count bytes of the
\* buffer; integer slots 0 .. n_u-1 hold the 32-byte big-endian words,
\* boolean slots 0 .. n_b-1 the truth of the bool bytes, address slots
\* 0 .. n_a-1 the 20-byte spans, in buffer order; every other slot holds
\* its default.
C3_HeaderConsumedExactly ==
    HeaderDecoded =>
        LET nu == At(0)
            nb == At(1 + WordBytes * nu)
            na == At(2 + WordBytes * nu + nb)
        IN  /\ counts = <<nu, nb, na>>
            /\ instr_offset = 3 + 32 * nu + nb + 20 * na
            /\ instr_offset <= InputLen
            /\ \A i \in Slots :
                   /\ IF i < nu
                      THEN /\ Len(buff_uint256[i]) <= WordBytes
                           /\ \A k \in 0 .. (WordBytes - 1) :
                                  Dig(buff_uint256[i], k) =
                                      At(1 + 32 * i + 31 - k)
                      ELSE buff_uint256[i] = U256Zero
                   /\ buff_bool[i] =
                          (i < nb /\ At(2 + 32 * nu + i) # 0)
                   /\ IF i < na
                      THEN \A k \in 0 .. (AddrBytes - 1) :
                               Dig(buff_address[i], k) =
                                   At(3 + 32 * nu + nb + 20 * i + 19 - k)
                      ELSE buff_address[i] = AddressZero

\* a header with two integers, two booleans and an address is decoded
C3_Witness ==
    HeaderDecoded /\ counts = <<2, 2, 1>> /\ instr_offset < InputLen

\* the opcode table of the wire format: the recognized opcodes
TableOpcodes == (0 .. 10) \cup (30 .. 33)

\* the table's operand count of each recognized opcode
TableArity(op) ==
    IF op \in {0, 1, 5, 6, 7, 32, 33} THEN 3
    ELSE IF op = 2 THEN 2
    ELSE 1

\* the error of each recognized opcode whose operands are not all there
TableShortMsg(op) ==
    CASE op = 0 -> "Not enough bytes for add instruction"
      [] op = 1 -> "Not enough bytes for mul instruction"
      [] op = 2 -> "Not enough bytes for isEven instruction"
      [] op = 3 -> "Not enough bytes for special instruction"
      [] op = 4 -> "Not enough bytes for return instruction"
      [] op = 5 -> "Not enough bytes for equal instruction"
      [] op = 6 -> "Not enough bytes for greaterThan instruction"
      [] op = 7 -> "Not enough bytes for lessThan instruction"
      [] op = 8 -> "Not enough bytes for return bool instruction"
      [] op = 9 -> "Not enough bytes for getLatestPrice instruction"
      [] op = 10 -> "Not enough bytes for getPriceFeedAddress instruction"
      [] op = 30 -> "Not enough bytes for msg.sender instruction"
      [] op = 31 -> "Not enough bytes for itemPrice instruction"
      [] op = 32 -> "Not enough bytes for sub instruction"
      [] op = 33 -> "Not enough bytes for div instruction"

\* the dispatch loop is about to read the opcode at the cursor
AtInstruction == fn = "execute" /\ pc = "run" /\ instr_offset < InputLen

\* the bytes that follow the opcode at the cursor
BytesAfterOpcode == InputLen - (instr_offset + 1)

\* the instruction at the cursor has all its operands
OperandsPresent == BytesAfterOpcode >= TableArity(At(instr_offset))

\* operand i of the instruction at the cursor
OperandAt(i) == At(instr_offset + 1 + i)

\* the error the instruction at the cursor fails with, "" if it does not
\* fail: an opcode outside the table, operands cut short, a subtraction
\* below zero, a division by zero
FailureAtCursor ==
    LET op == At(instr_offset)
    IN  IF op \notin TableOpcodes THEN "Invalid opcode"
        ELSE IF ~OperandsPresent THEN TableShortMsg(op)
        ELSE IF op = 32 /\ U256Lt(buff_uint256[OperandAt(0)],
                                  buff_uint256[OperandAt(1)])
        THEN "Subtraction underflow"
        ELSE IF op = 33 /\ buff_uint256[OperandAt(1)] = U256Zero
        THEN "Division by zero"
        ELSE ""

\* C4: once an operation reports an error no further instruction executes
\* and no output is produced: the one step that leaves a call whose result
\* is an error or an abort hands this result back to the caller, and the
\* instruction at the cursor that fails makes execute return exactly its
\* error, with no register written, whatever bytes follow it.
C4_ErrorStopsExecution ==
    [][/\ pc # "idle" /\ result.kind \in {"err", "panic"} =>
              pc' = "idle" /\ result' = result /\ regs' = regs
       /\ AtInstruction /\ FailureAtCursor # "" =>
              /\ pc' = "done"
              /\ result' = Err(FailureAtCursor)
              /\ regs' = regs]_vars

\* the second instruction of a program fails with an underflow and bytes
\* follow it
C4_Witness ==
    /\ ExecuteDone
    /\ result = Err("Subtraction underflow")
    /\ executed = 2
    /\ instr_offset + 3 < InputLen

\* C5: an opcode byte outside the table (the reserved 11-29 and 34-255
\* included) makes execute return the InvalidOpcode error, whatever bytes,
\* if any, follow it.
C5_UnknownOpcodeIsInvalid ==
    [][AtInstruction /\ At(instr_offset) \notin TableOpcodes =>
           pc' = "done" /\ result' = Err("Invalid opcode")]_vars

\* a reserved opcode with bytes after it was dispatched
C5_Witness ==
    /\ ExecuteDone
    /\ result = Err("Invalid opcode")
    /\ At(instr_offset - 1) = 29
    /\ instr_offset < InputLen

\* C6: a recognized opcode with fewer bytes after it than its arity makes
\* execute fail with the InsufficientData error of that opcode and write
\* no register; a recognized opcode that is the last byte of the buffer is
\* such a case.
C6_OperandsCheckedBeforeRead ==
    [][AtInstruction /\ At(instr_offset) \in TableOpcodes
           /\ ~OperandsPresent =>
              /\ pc' = "done"
              /\ result' = Err(TableShortMsg(At(instr_offset)))
              /\ regs' = regs]_vars

\* a div with two of its three operand bytes was dispatched
C6_Witness ==
    /\ ExecuteDone
    /\ result = Err("Not enough bytes for div instruction")
    /\ InputLen - instr_offset = 2

\* x + y as an integer of any width: no digit is dropped
ExactSum(x, y) == Norm(AddDigits(x, y, Max2(Len(x), Len(y)) + 1, 0)[2])

\* x * y as an integer of any width: no digit is dropped
ExactProduct(x, y) == Norm(MulDigits(x, y, Len(x) + Len(y))[2])

\* x mod 2^256
Mod2w(x) ==
    IF Len(x) <= WordBytes THEN x
    ELSE Norm(SubSeq(x, Len(x) - WordBytes + 1, Len(x)))

\* a public function of two operands has returned
ArithDone(name) == fn = name /\ pc = "done"

\* d = a - b as integers, a >= b
IsDifference(d, a, b) == Len(d) <= WordBytes /\ ExactSum(d, b) = a

\* C7: sub(a, b) fails iff a < b, and otherwise sub(a, b) + b = a: the
\* public sub returns the underflow error or that difference, and opcode
\* 32 returns the underflow error with no register written or writes that
\* difference of int[a] and int[b] to int[ret].
C7_SubFailsIffLess ==
    [][/\ ArithDone("sub")' =>
              LET a == args'[1]
                  b == args'[2]
              IN  IF U256Lt(a, b)
                  THEN result' = Err("Subtraction underflow")
                  ELSE /\ result'.kind = "ok"
                       /\ IsDifference(result'.value, a, b)
       /\ AtInstruction /\ At(instr_offset) = 32 /\ OperandsPresent =>
              LET a == buff_uint256[OperandAt(0)]
                  b == buff_uint256[OperandAt(1)]
              IN  IF U256Lt(a, b)
                  THEN /\ result' = Err("Subtraction underflow")
                       /\ pc' = "done"
                       /\ regs' = regs
                  ELSE /\ result' = result
                       /\ pc' = "run"
                       /\ IsDifference(buff_uint256'[OperandAt(2)], a, b)]_vars

\* opcode 32 failed on int[a] < int[b], as the first instruction
C7_Witness ==
    /\ ExecuteDone
    /\ result = Err("Subtraction underflow")
    /\ executed = 1
    /\ At(instr_offset - 1) = 32
    /\ U256Lt(buff_uint256[At(instr_offset)], buff_uint256[At(instr_offset + 1)])

\* q = a div b and r = a mod b as integers, b > 0
IsQuotient(q, r, a, b) ==
    /\ Len(q) <= WordBytes
    /\ U256Lt(r, b)
    /\ \A p \in {ExactProduct(q, b)} : ExactSum(p, r) = a

\* C8: div(a, b) fails iff b = 0, and otherwise div(a, b) * b + (a mod b)
\* = a: the public div returns the DivisionByZero error or that quotient,
\* and opcode 33 returns the error or writes the quotient of int[a] and
\* int[b] to int[ret].
C8_DivFailsIffZero ==
    [][/\ ArithDone("div")' =>
              LET a == args'[1]
                  b == args'[2]
              IN  IF b = U256Zero
                  THEN result' = Err("Division by zero")
                  ELSE /\ result'.kind = "ok"
                       /\ \A r \in {U256Rem(a, b)} :
                              IsQuotient(result'.value, r, a, b)
       /\ AtInstruction /\ At(instr_offset) = 33 /\ OperandsPresent =>
              LET a == buff_uint256[OperandAt(0)]
                  b == buff_uint256[OperandAt(1)]
              IN  IF b = U256Zero
                  THEN /\ result' = Err("Division by zero")
                       /\ pc' = "done"
                       /\ regs' = regs
                  ELSE /\ result' = result
                       /\ pc' = "run"
                       /\ \A r \in {U256Rem(a, b)} :
                              IsQuotient(buff_uint256'[OperandAt(2)],
                                         r, a, b)]_vars

\* the public div has divided U256::MAX by a divisor of 17 digits
C8_Witness ==
    /\ ArithDone("div")
    /\ args[1] = U256Max
    /\ Len(args[2]) = 17
    /\ result = Ok([i \in 1 .. 16 |-> 255])

\* third operands of the associativity instances: a small value, a value
\* of three digits, and U256::MAX
ThirdOperands == {U256From(3), U256From(65537), U256Max}

\* C9: add and mul never fail and are addition and multiplication modulo
\* 2^256, wraparound at U256::MAX included; both are commutative and
\* associative.
C9_AddMulModular ==
    ArithDone("add") \/ ArithDone("mul") =>
        LET a == args[1]
            b == args[2]
        IN  /\ result.kind = "ok"
            /\ fn = "add" =>
                   /\ result.value = Mod2w(ExactSum(a, b))
                   /\ Len(a) <= 1 /\ Len(b) <= 1 =>
                          SmallValue(result.value) =
                              SmallValue(a) + SmallValue(b)
                   /\ add(b, a) = result.value
                   /\ \A c \in ThirdOperands :
                          \A bc \in {add(b, c)} :
                              add(result.value, c) = add(a, bc)
            /\ fn = "mul" =>
                   /\ result.value = Mod2w(ExactProduct(a, b))
                   /\ Len(a) <= 1 /\ Len(b) <= 1 =>
                          SmallValue(result.value) =
                              SmallValue(a) * SmallValue(b)
                   /\ mul(b, a) = result.value
                   /\ \A c \in ThirdOperands :
                          \A bc \in {mul(b, c)} :
                              mul(result.value, c) = mul(a, bc)

\* add has wrapped: U256::MAX + 1 = 0
C9_Witness ==
    /\ ArithDone("add")
    /\ args = <<U256Max, U256From(1)>>
    /\ result = Ok(U256Zero)

\* header [2][2][5][0][0], then the instructions of code
TwoFiveThen(code) ==
    Header(<<U256From(2), U256From(5)>>, <<>>, <<>>) \o code

\* C10 as stated: the literals 2 (slot 0) and 5 (slot 1), then sub(1,0,0);
\* returnUint(0), make execute fail with ArithmeticUnderflow.
C10_AsStated ==
    ExecuteDone /\ input = TwoFiveThen(<<32, 1, 0, 0, 4, 0>>) =>
        result = Err("Subtraction underflow")

\* C10, amended: the literals 2 (slot 0) and 5 (slot 1), then sub(1,0,0);
\* returnUint(0), make execute return 3, which is int[1] - int[0]; it is
\* sub(0,1,0); returnUint(0) after that header that fails with
\* ArithmeticUnderflow.
C10_SubOperandOrder ==
    /\ ExecuteDone /\ input = TwoFiveThen(<<32, 1, 0, 0, 4, 0>>) =>
           result = Ok(U256From(3))
    /\ ExecuteDone /\ input = TwoFiveThen(<<32, 0, 1, 0, 4, 0>>) =>
           result = Err("Subtraction underflow")

\* execute has returned from sub(1,0,0); returnUint(0) on the literals 2, 5
C10_Witness ==
    ExecuteDone /\ input = TwoFiveThen(<<32, 1, 0, 0, 4, 0>>)

\* the unified result type of a boolean register: true is 1, false is 0
BoolAsUint(b) == IF b THEN U256From(1) ELSE U256Zero

\* C11: a return opcode halts execution: returnUint(r) or returnBool(r)
\* with its operand present makes execute return int[r], or bool[r] as 0
\* or 1, as the register stands at that moment; the cursor does not pass
\* the operand, no register is written, and a call that has returned a value
\* takes no further step but its hand-over to the caller, whatever bytes
\* follow the return instruction.
C11_ReturnHalts ==
    [][/\ AtInstruction /\ At(instr_offset) \in {4, 8} /\ OperandsPresent =>
              /\ pc' = "done"
              /\ result' = Ok(IF At(instr_offset) = 4
                              THEN buff_uint256[OperandAt(0)]
                              ELSE BoolAsUint(buff_bool[OperandAt(0)]))
              /\ instr_offset' <= instr_offset + 2
              /\ regs' = regs
       /\ ExecuteDone /\ result.kind = "ok" =>
              pc' = "idle" /\ result' = result /\ regs' = regs]_vars

\* returnUint(0) has returned the literal 5 and the byte behind it is no
\* opcode
C11_Witness ==
    /\ ExecuteDone
    /\ result = Ok(U256From(5))
    /\ executed = 1
    /\ At(instr_offset - 1) = 4
    /\ instr_offset + 1 < InputLen
    /\ At(instr_offset + 1) = 99

\* the dispatch loop stands at the end of the buffer: no return opcode was
\* executed and no instruction failed
AtEndOfBuffer == fn = "execute" /\ pc = "run" /\ instr_offset >= InputLen

\* C12: when the cursor reaches the end of the buffer with no return
\* executed and no instruction failed, execute returns Ok(0), whatever the
\* register banks hold, and writes no register; the 3-byte buffer [0][0][0]
\* returns 0.
C12_DefaultIsZero ==
    [][/\ AtEndOfBuffer =>
              pc' = "done" /\ result' = Ok(U256Zero) /\ regs' = regs
       /\ ExecuteDone' /\ input' = <<0, 0, 0>> =>
              result' = Ok(U256Zero) /\ executed' = 0]_vars

\* a program of two instructions ran to the end of the buffer, integer
\* slot 0 holds a value that is not zero, and execute returned 0
C12_Witness ==
    /\ ExecuteDone
    /\ instr_offset = InputLen
    /\ executed = 2
    /\ buff_uint256[0] # U256Zero
    /\ result = Ok(U256Zero)

\* the end of the header the three counts declare
HeaderEnd ==
    3 + WordBytes * uint256_count + bool_count + AddrBytes * address_count

\* the dispatch loop is at the start of an iteration, or at its exit test
InLoop == fn = "execute" /\ pc = "run"

\* C13: the instruction cursor only moves forward, by the size of the
\* instruction: a step of the dispatch loop that does not end the call
\* moves the cursor by exactly 1 + arity(opcode), no step of the loop moves
\* it back, and at the start of every iteration the cursor is between the
\* end of the header and the end of the buffer.
C13_CursorAdvancesExactly ==
    [][InLoop =>
           /\ HeaderEnd <= instr_offset /\ instr_offset <= InputLen
           /\ instr_offset' >= instr_offset
           /\ pc' = "run" =>
                  /\ instr_offset < InputLen
                  /\ instr_offset' =
                         instr_offset + 1 + TableArity(At(instr_offset))
                  /\ instr_offset' <= InputLen
                  /\ HeaderEnd' = HeaderEnd]_vars

\* two instructions of three operands are executed and a third one is at
\* the cursor
C13_Witness ==
    /\ InLoop
    /\ executed = 2
    /\ instr_offset = HeaderEnd + 8
    /\ instr_offset < InputLen

\* a call of execute is under way
InCall == fn = "execute" /\ pc \notin {"idle", "done"}

\* the stages of execute that are still ahead
StagesAhead ==
    CASE pc = "start" -> 4
      [] pc = "uints" -> 3
      [] pc = "bools" -> 2
      [] pc = "addrs" -> 1
      [] OTHER -> 0

\* the steps the present stage has left at most
StepsAhead ==
    CASE pc = "uints" -> uint256_count - j
      [] pc = "bools" -> bool_count - j
      [] pc = "addrs" -> address_count - j
      [] pc = "run" -> InputLen + 1 - instr_offset
      [] OTHER -> 0

\* a bound of the steps a call of execute has left: it is positive while
\* the call is under way
Rank == StagesAhead * (InputLen + BankSize + 1) + StepsAhead

\* the loop or the exit test the present stage stands at has a branch to
\* take: a literal loop is at or before its count, the dispatch loop at or
\* before the end of the buffer
HasBranch ==
    CASE pc = "uints" -> j <= uint256_count
      [] pc = "bools" -> j <= bool_count
      [] pc = "addrs" -> j <= address_count
      [] pc = "run" -> instr_offset <= InputLen
      [] OTHER -> TRUE

\* C14: every call of execute terminates in one of three outcomes: every
\* step of a call under way lowers a bound of the steps left and leaves the
\* call at a stage that has a branch to take, or ended; the dispatch loop
\* makes at most input.len() iterations; and the call ends with a value (of
\* a return opcode, or the default 0 at the end of the buffer) or with an
\* error, never otherwise.
C14_TerminatesInThreeOutcomes ==
    [][InCall =>
           /\ Rank' < Rank
           /\ Rank' >= 0
           /\ HasBranch'
           /\ executed' <= InputLen
           /\ pc' = "done" => result'.kind \in {"ok", "err"}]_vars

\* the opcodes that write an integer or a boolean register from integer
\* registers or from a constant of the table
ComputingOpcodes == {0, 1, 2, 3, 5, 6, 7, 32, 33}

\* v is the table effect of the integer opcode op on a and b
IsIntEffect(op, v, a, b) ==
    CASE op = 0 -> v = Mod2w(ExactSum(a, b))
      [] op = 1 -> v = Mod2w(ExactProduct(a, b))
      [] op = 32 -> IsDifference(v, a, b)
      [] op = 33 -> \A r \in {U256Rem(a, b)} : IsQuotient(v, r, a, b)

\* the table effect of the comparison opcode op on a and b
CmpEffect(op, a, b) ==
    CASE op = 5 -> a = b
      [] op = 6 -> U256Lt(b, a)
      [] op = 7 -> U256Lt(a, b)

\* C15: an opcode that does not end the call computes its table effect from
\* the registers as they are before the instruction, also when the result
\* index is an operand index: add, mul, sub, div write op(int[a], int[b])
\* to int[ret]; equal, greaterThan, lessThan write cmp(int[a], int[b]) to
\* bool[ret]; isEven writes (int[a] mod 2 = 0) to bool[ret]; special writes
\* 69 to int[ret].  The literals 3, 2 and sub(0,1,0); returnUint(0) return
\* 1; the literal 5 and add(0,0,1); returnUint(1) return 10.
C15_TableEffects ==
    [][/\ AtInstruction /\ At(instr_offset) \in ComputingOpcodes
             /\ OperandsPresent /\ FailureAtCursor = "" =>
              LET op == At(instr_offset)
                  a == buff_uint256[OperandAt(0)]
                  b == buff_uint256[OperandAt(1)]
              IN  /\ pc' = "run"
                  /\ op \in {0, 1, 32, 33} =>
                         \A v \in {buff_uint256'[OperandAt(2)]} :
                             IsIntEffect(op, v, a, b)
                  /\ op \in {5, 6, 7} =>
                         buff_bool'[OperandAt(2)] = CmpEffect(op, a, b)
                  /\ op = 2 =>
                         buff_bool'[OperandAt(1)] = (Dig(a, 0) % 2 = 0)
                  /\ op = 3 =>
                         buff_uint256'[OperandAt(0)] = U256From(69)
       /\ ExecuteDone' =>
              /\ input' = Header(<<U256From(3), U256From(2)>>, <<>>, <<>>)
                              \o <<32, 0, 1, 0, 4, 0>> =>
                     result' = Ok(U256From(1))
              /\ input' = Header(<<U256From(5)>>, <<>>, <<>>)
                              \o <<0, 0, 0, 1, 4, 1>> =>
                     result' = Ok(U256From(10))]_vars

\* sub(0,1,0) has run on the literals 3 and 2: its result slot is the slot
\* of its first operand, and holds 1
C15_Witness ==
    /\ InLoop
    /\ executed = 1
    /\ instr_offset = HeaderEnd + 4
    /\ At(HeaderEnd) = 32
    /\ At(HeaderEnd + 1) = At(HeaderEnd + 3)
    /\ buff_uint256[0] = U256From(1)
    /\ buff_uint256[1] = U256From(2)

\* the banks new and old differ in no slot but k
OnlySlot(new, old, k) == \A i \in Slots \ {k} : new[i] = old[i]

\* the index of the operand that names the result slot of opcode op
RetOperand(op) == TableArity(op) - 1

\* C16: an instruction that does not end the call changes at most one
\* register slot: add, mul, sub, div, special, getLatestPrice, itemPrice
\* write int[ret] only; equal, greaterThan, lessThan, isEven write
\* bool[ret] only; msg.sender and getPriceFeedAddress write addr[ret] only;
\* the other slots of that bank and the two other banks stay as they are.
\* An instruction that fails, and one that returns, writes nothing.
C16_OneSlotWritten ==
    [][AtInstruction =>
           LET op == At(instr_offset)
               ret == OperandAt(RetOperand(op))
           IN  IF pc' = "done" \/ FailureAtCursor # ""
               THEN pc' = "done" /\ regs' = regs
               ELSE /\ op \in {0, 1, 3, 9, 31, 32, 33} =>
                          /\ OnlySlot(buff_uint256', buff_uint256, ret)
                          /\ buff_bool' = buff_bool
                          /\ buff_address' = buff_address
                    /\ op \in {2, 5, 6, 7} =>
                          /\ OnlySlot(buff_bool', buff_bool, ret)
                          /\ buff_uint256' = buff_uint256
                          /\ buff_address' = buff_address
                    /\ op \in {10, 30} =>
                          /\ OnlySlot(buff_address', buff_address, ret)
                          /\ buff_uint256' = buff_uint256
                          /\ buff_bool' = buff_bool
                    /\ op \in TableOpcodes \ {4, 8}]_vars

\* msg.sender has written address slot 255 as the third instruction of a
\* program whose integer slot 0 holds a value
C16_Witness ==
    /\ InLoop
    /\ executed = 3
    /\ At(instr_offset - 2) = 30
    /\ buff_address[255] = sender
    /\ sender # AddressZero
    /\ buff_uint256[0] # U256Zero
    /\ buff_uint256[255] = U256Zero

\* the bank an opcode of the table writes, "" if it writes none
WrittenBank(op) ==
    IF op \in {0, 1, 3, 9, 31, 32, 33} THEN "int"
    ELSE IF op \in {2, 5, 6, 7} THEN "bool"
    ELSE IF op \in {10, 30} THEN "addr"
    ELSE ""

\* the result slots in bank of the instructions from position p up to the
\* cursor, read off the buffer
RECURSIVE WrittenFrom(_, _)
WrittenFrom(bank, p) ==
    IF p >= instr_offset \/ p >= InputLen THEN {}
    ELSE LET op == At(p)
             next == p + 1 + TableArity(op)
         IN  IF op \notin TableOpcodes \/ next > InputLen THEN {}
             ELSE (IF WrittenBank(op) = bank THEN {At(next - 1)} ELSE {})
                      \cup WrittenFrom(bank, next)

\* the slots of bank no header literal populated and no executed
\* instruction had as its result slot
Untouched(bank, count) ==
    {i \in Slots : i >= count} \ WrittenFrom(bank, HeaderEnd)

\* C17: register slots are default-initialized and stay so until written:
\* in the dispatch loop a slot that the header did not populate (index >=
\* the literal count of its bank) and that is the result slot of no
\* executed instruction holds zero, false or the zero address, and
\* returnUint(r) or returnBool(r) on such a slot returns 0, with no error.
C17_UntouchedSlotsAreDefault ==
    [][InLoop =>
           /\ \A i \in Untouched("int", uint256_count) :
                  buff_uint256[i] = U256Zero
           /\ \A i \in Untouched("bool", bool_count) :
                  buff_bool[i] = FALSE
           /\ \A i \in Untouched("addr", address_count) :
                  buff_address[i] = AddressZero
           /\ AtInstruction /\ OperandsPresent =>
                  /\ At(instr_offset) = 4
                         /\ OperandAt(0) \in Untouched("int", uint256_count)
                         => result' = Ok(U256Zero)
                  /\ At(instr_offset) = 8
                         /\ OperandAt(0) \in Untouched("bool", bool_count)
                         => result' = Ok(U256Zero)]_vars

\* returnUint(255) has returned 0 as the third instruction of a program
\* whose integer slot 0 holds a value
C17_Witness ==
    /\ ExecuteDone
    /\ executed = 3
    /\ instr_offset < InputLen
    /\ At(instr_offset - 1) = 4
    /\ At(instr_offset) = 255
    /\ buff_uint256[0] # U256Zero
    /\ result = Ok(U256Zero)

\* the bool byte i of the header
BoolByte(i) == At(2 + WordBytes * uint256_count + i)

\* C18: booleans are 0 or 1 at the boundary only: when the header is
\* decoded boolean slot i < n_b is true iff bool byte i is not zero (2 as
\* well as 1); returnBool(r) returns exactly 1 when bool[r] is true and
\* exactly 0 when it is false, so a call that ends in returnBool returns 0
\* or 1; the literal 7 and isEven(0,0); returnBool(0) return 0.
C18_BoolsAtTheBoundary ==
    [][/\ HeaderDecoded =>
              \A i \in 0 .. (bool_count - 1) :
                  buff_bool[i] = (BoolByte(i) # 0)
       /\ AtInstruction /\ At(instr_offset) = 8 /\ OperandsPresent =>
              /\ pc' = "done"
              /\ result'.kind = "ok"
              /\ result'.value \in {<<>>, <<1>>}
              /\ (result'.value = <<1>>) = buff_bool[OperandAt(0)]
       /\ ExecuteDone' /\ input' = Header(<<U256From(7)>>, <<>>, <<>>)
                                      \o <<2, 0, 0, 8, 0>> =>
              result' = Ok(U256Zero)]_vars

\* the bool byte 2 of the header was returned by returnBool(0) as 1
C18_Witness ==
    /\ ExecuteDone
    /\ executed = 1
    /\ bool_count = 2
    /\ BoolByte(0) = 2
    /\ instr_offset < InputLen
    /\ At(instr_offset - 1) = 8
    /\ At(instr_offset) = 0
    /\ result = Ok(U256From(1))

\* all slots of the three banks hold their defaults
FreshBanks ==
    /\ buff_uint256 = [i \in Slots |-> U256Zero]
    /\ buff_bool = [i \in Slots |-> FALSE]
    /\ buff_address = [i \in Slots |-> AddressZero]

\* C19: execute is stateless and deterministic across calls: in a sequence
\* of calls on one VM a call that has ended has the result of every earlier
\* call of the same program bytes and item price, whatever calls were made
\* in between, failed ones too; every call starts on fresh register banks;
\* and no step changes the two stored addresses, which the getters return
\* as the VM was constructed with them.
C19_StatelessAcrossCalls ==
    [][/\ storage' = storage
       /\ storage \in Deployments
       /\ pc' = "done" /\ fn' = "arb_price_consumer" =>
              result' = Ok(arb_price_consumer)
       /\ pc' = "done" /\ fn' = "redot_pay_vault" =>
              result' = Ok(redot_pay_vault)
       /\ pc = "idle" /\ fn' = "execute" => FreshBanks'
       /\ ExecuteDone' =>
              \A k \in DOMAIN returned' :
                  returned'[k][1] = input' /\ returned'[k][2] = item_price'
                      => returned'[k][4] = result']_vars

\* the third call on a VM has returned a value; the first call had the
\* same program and price, and the call in between was another program
\* that failed after its header wrote integer slots
C19_Witness ==
    /\ ExecuteDone
    /\ Len(returned) = 2
    /\ returned[1][1] = input
    /\ returned[1][2] = item_price
    /\ returned[2][1] # input
    /\ returned[2][4] = Err("Subtraction underflow")
    /\ input = <<0, 0, 0, 4, 1>>
    /\ result = Ok(U256Zero)

\* the positions (from 1) of the address literal bytes of buf, as far as
\* buf has them; none if buf ends before its address count
AddressLiteralBytes(buf) ==
    IF Len(buf) < 1 THEN {}
    ELSE LET pb == 1 + WordBytes * buf[1]
         IN  IF Len(buf) < pb + 1 THEN {}
             ELSE LET pa == pb + 1 + buf[pb + 1]
                  IN  IF Len(buf) < pa + 1 THEN {}
                      ELSE {i \in 1 .. Len(buf) :
                               pa + 1 < i /\ i <= pa + 1 + AddrBytes * buf[pa + 1]}

\* x and y are the same program but for the bytes of the address literals
SameButAddresses(x, y) ==
    /\ Len(x) = Len(y)
    /\ \A i \in (1 .. Len(x)) \ AddressLiteralBytes(x) : x[i] = y[i]

\* C20: address data never influences the result: a call that has ended
\* has the outcome, value or error, of every earlier call whose program
\* differs from its own in the bytes of the address literals only and whose
\* item price is the same, whoever the two senders are.
C20_AddressesDoNotInfluence ==
    [][ExecuteDone' =>
           \A k \in DOMAIN returned' :
               /\ SameButAddresses(returned'[k][1], input')
               /\ returned'[k][2] = item_price'
               => returned'[k][4] = result']_vars

\* a call by one sender has ended after a call by another sender of a
\* program with another address literal, the same otherwise; both wrote the
\* sender to an address slot
C20_Witness ==
    /\ ExecuteDone
    /\ Len(returned) >= 1
    /\ returned[1][1] # input
    /\ SameButAddresses(returned[1][1], input)
    /\ returned[1][2] = item_price
    /\ returned[1][3] # sender
    /\ address_count = 1
    /\ buff_address[1] = sender
    /\ result = Ok(U256Zero)

====
